---- MODULE Spec2Model ----
(***************************************************************************)
(* Model of the DICOM viewer repository: the GET /api/dicom-files route    *)
(* handler (src/src/app/page.tsx, second half), the DicomViewer component  *)
(* (src/src/components/DicomViewer.tsx) and the DicomThumbnail component   *)
(* (src/unnamed/part_000).                                                 *)
(*                                                                         *)
(* Strings that the code takes apart (file names, paths, group keys) are   *)
(* sequences of one-character strings, so that toLowerCase, endsWith,      *)
(* split, the instance-number regular expression, parseInt, the default    *)
(* sort order and localeCompare are computed and not assumed.              *)
(***************************************************************************)
EXTENDS Integers, Sequences, FiniteSets, TLC

VARIABLES
    \* GET /api/dicom-files
    dirState,      \* "missing" | "unreadable" | "ok": what existsSync/readdirSync meet
    dirEntries,    \* the names readdirSync returns (a set: its order is arbitrary)
    fileData,      \* name -> what readFileSync + parseDicom give for that file
    response,      \* NoResponse, or the NextResponse.json(...) GET returned
    \* DicomViewer: props, state and refs
    dicomFiles,         \* the dicomFiles prop: [id |-> which array, length |-> its length]
    currentImageIndex,  \* useState(0)
    isPlaying,          \* useState(false)
    playSpeed,          \* useState(10), in tenths (0.5x is 5, 10x is 100)
    isPlayingRef,       \* isPlayingRef.current
    currentIndexRef,    \* currentIndexRef.current
    keyHandlerTotal,    \* imageCount as captured by the registered handleKeyPress
    playbackFrameRef,   \* playbackFrameRef.current: a frame id, or NoFrame
    playbackFrames,     \* the requested animation frames of tick that have not run
    pendingEffects,     \* what changed in the committed render whose effects have not run
    lastEvent,          \* history: the event whose handler ran last
    \* DicomViewer: resize handling
    isInitialized,      \* useState(false): the element is enabled
    isMobile,           \* useState(false)
    resizeTimeoutRef,   \* resizeTimeoutRef.current: a timeout id, or NoTimeout
    resizeFrameRef,     \* resizeFrameRef.current: a frame id, or NoFrame
    timeouts,           \* the timeouts set by the resize effect that are pending
    resizeFrames,       \* the requested resize animation frames that have not run
    burst,              \* history: the current burst of window resize events
    \* DicomThumbnail
    cornerstone,        \* the module-level cornerstone is set
    isConfigured,       \* the module-level isConfigured
    configureCalls,     \* history: calls of cornerstoneWADOImageLoader.configure
    thumbs,             \* the thumbnails: mounted, the dicomFile prop, the canvas
    runs,               \* the effect runs of the thumbnails and their runLoad
    \* Home (the page)
    series,             \* useState([]): the series list
    selectedSeriesId,   \* useState(null): NoSelection, or the id of a series
    loading,            \* useState(true)
    error,              \* useState(null): NoError, or the message
    fetchState,         \* history: how fetchDicomSeries went
    \* DicomViewer: the library, the viewer element and its images
    mounted,            \* the component is mounted
    viewerCornerstone,  \* the module-level cornerstone of DicomViewer.tsx is set
    initPc,             \* where initializeCornerstone() of the init effect is
    isCancelled,        \* isCancelled of the init effect
    hasEnabledElement,  \* hasEnabledElement of the init effect
    sizeObserver,       \* the ResizeObserver of enableElement observes the element
    elementEnabled,     \* cornerstone holds the viewer element as enabled
    observing,          \* the ResizeObserver of container and controls observes
    loads,              \* the imageIds whose cornerstone.loadImage promise is pending
    lastDisplay         \* history: the last cornerstone.displayImage call of loadImage

apiVars == <<dirState, dirEntries, fileData, response>>

viewerVars ==
    <<dicomFiles, currentImageIndex, isPlaying, playSpeed, isPlayingRef,
      currentIndexRef, keyHandlerTotal, playbackFrameRef, playbackFrames,
      pendingEffects, lastEvent>>

resizeVars ==
    <<isInitialized, isMobile, resizeTimeoutRef, resizeFrameRef, timeouts,
      resizeFrames, burst>>

thumbVars == <<cornerstone, isConfigured, configureCalls, thumbs, runs>>

homeVars == <<series, selectedSeriesId, loading, error, fetchState>>

lifeVars ==
    <<mounted, viewerCornerstone, initPc, isCancelled, hasEnabledElement,
      sizeObserver, elementEnabled, observing, loads, lastDisplay>>

vars == <<apiVars, viewerVars, resizeVars, thumbVars, homeVars, lifeVars>>

\* What the route handler leaves alone
notApiVars == <<viewerVars, resizeVars, thumbVars, homeVars, lifeVars>>

\* What the navigation and playback of the viewer leave alone
notViewerVars == <<apiVars, resizeVars, thumbVars, homeVars, lifeVars>>

\* What the resize handling of the viewer leaves alone
notResizeVars == <<apiVars, viewerVars, thumbVars, homeVars, lifeVars>>

\* What the thumbnails leave alone
notThumbVars == <<apiVars, viewerVars, resizeVars, homeVars, lifeVars>>

\* What the page leaves alone
notHomeVars == <<viewerVars, resizeVars, thumbVars, lifeVars>>

\* What no part of the viewer touches
notViewerParts == <<apiVars, thumbVars, homeVars>>

----------------------------------------------------------------------------
(* Strings *)

\* extractInstanceNumber's null; the numbers it returns are never negative.
NULL == -1

Digits == <<"0", "1", "2", "3", "4", "5", "6", "7", "8", "9">>

IsDigit(c) == \E i \in 1..10 : Digits[i] = c

DigitVal(c) == (CHOOSE i \in 1..10 : Digits[i] = c) - 1

\* UTF-16 code units of the characters that occur in the modelled file names.
CodeUnit(c) ==
    CASE c = "." -> 46 [] c = "/" -> 47
      [] IsDigit(c) -> 48 + DigitVal(c)
      [] c = "C" -> 67 [] c = "D" -> 68 [] c = "M" -> 77
      [] c = "a" -> 97 [] c = "b" -> 98 [] c = "c" -> 99 [] c = "d" -> 100
      [] c = "i" -> 105 [] c = "m" -> 109 [] c = "n" -> 110 [] c = "o" -> 111
      [] c = "r" -> 114 [] c = "s" -> 115 [] c = "t" -> 116
      [] c = "u" -> 117 [] c = "x" -> 120

IsUpper(c) == c \in {"C", "D", "M"}

ToLowerChar(c) ==
    CASE c = "C" -> "c" [] c = "D" -> "d" [] c = "M" -> "m" [] OTHER -> c

ToLowerCase(s) == [i \in 1..Len(s) |-> ToLowerChar(s[i])]

EndsWith(s, suffix) ==
    /\ Len(s) >= Len(suffix)
    /\ SubSeq(s, Len(s) - Len(suffix) + 1, Len(s)) = suffix

\* s.split('.')
Split(s) ==
    LET Parts[i \in 0..Len(s)] ==
            IF i = 0 THEN << <<>> >>
            ELSE LET prev == Parts[i - 1]
                     n    == Len(prev)
                 IN IF s[i] = "."
                    THEN Append(prev, <<>>)
                    ELSE [prev EXCEPT ![n] = Append(prev[n], s[i])]
    IN Parts[Len(s)]

\* parseInt of a non-empty run of decimal digits
ParseInt(ds) ==
    LET Val[i \in 0..Len(ds)] ==
            IF i = 0 THEN 0 ELSE Val[i - 1] * 10 + DigitVal(ds[i])
    IN Val[Len(ds)]

\* -1, 0 or 1: lexicographic comparison of two strings by a weight per character
LexCompare(a, b, W(_)) ==
    LET Cmp[i \in 1..(Len(a) + 1)] ==
            IF i > Len(a) /\ i > Len(b) THEN 0
            ELSE IF i > Len(a) THEN -1
            ELSE IF i > Len(b) THEN 1
            ELSE IF W(a[i]) < W(b[i]) THEN -1
            ELSE IF W(a[i]) > W(b[i]) THEN 1
            ELSE Cmp[i + 1]
    IN Cmp[1]

\* The order Array.prototype.sort() uses without a comparator: by code units.
SortCompare(a, b) == LexCompare(a, b, CodeUnit)

\* String.prototype.localeCompare under the root collation: punctuation before
\* digits before letters, letters compared without case first, and on a tie at
\* that level lower case before upper case.
PrimaryWeight(c) == CodeUnit(ToLowerChar(c))

TertiaryWeight(c) == IF IsUpper(c) THEN 1 ELSE 0

LocaleCompare(a, b) ==
    LET p == LexCompare(a, b, PrimaryWeight)
    IN IF p # 0 THEN p ELSE LexCompare(a, b, TertiaryWeight)

----------------------------------------------------------------------------
(* DicomViewer: state, props and rendering *)

\* The longest dicomFiles list, and how many distinct arrays of each length
MaxImages == 3

NumLists == 2

\* The arrays the parent may pass as dicomFiles: identity and length
FileLists == [id : 1..NumLists, length : 0..MaxImages]

\* DESKTOP_SPEEDS / MOBILE_SPEEDS = [0.5, 1, 2, 5, 10], in tenths
SpeedOptions == {5, 10, 20, 50, 100}

\* const targetInterval = 1000 / playSpeed (milliseconds)
TargetInterval(speed) == 10000 \div speed

\* The time from one animation frame to the next, in milliseconds
FrameDeltas == {50, 100}

NoFrame == 0

imageCount == dicomFiles.length

\* The state of the component before it is mounted (and of a model run that
\* does not concern it)
ViewerUnmounted ==
    /\ dicomFiles = [id |-> 0, length |-> 0]
    /\ currentImageIndex = 0
    /\ isPlaying = FALSE
    /\ playSpeed = 100
    /\ isPlayingRef = FALSE
    /\ currentIndexRef = 0
    /\ keyHandlerTotal = 0
    /\ playbackFrameRef = NoFrame
    /\ playbackFrames = {}
    /\ pendingEffects = {}
    /\ lastEvent = "none"

\* The component after its first render and the effects of that render: the
\* reset and clamp effects set what is already so, the key handler is
\* registered, nothing plays.
InitViewer ==
    /\ dicomFiles \in FileLists
    /\ currentImageIndex = 0
    /\ isPlaying = FALSE
    /\ playSpeed = 100
    /\ isPlayingRef = FALSE
    /\ currentIndexRef = 0
    /\ keyHandlerTotal = dicomFiles.length
    /\ playbackFrameRef = NoFrame
    /\ playbackFrames = {}
    /\ pendingEffects = {}
    /\ lastEvent = "mount"

\* No committed render is waiting for its effects: handlers and callbacks run
\* only then, since React flushes the effects of a render before the next task.
Idle == pendingEffects = {}

\* A state update has been processed: the component re-renders if a value
\* changed (React bails out otherwise), and the effects depending on what
\* changed are pending.
Rendered(changed) == pendingEffects' = changed

IndexChange(next) == IF next # currentImageIndex THEN {"currentImageIndex"} ELSE {}

----------------------------------------------------------------------------
(* DicomViewer: event handlers *)

Min(a, b) == IF a < b THEN a ELSE b

Max(a, b) == IF a > b THEN a ELSE b

\* (prev) => (prev > 0 ? prev - 1 : 0)
PrevIndex(prev) == IF prev > 0 THEN prev - 1 ELSE 0

\* ArrowRight that forgets Math.min (mutant of KeyNextIndex)
KeyNextIndexUnclamped(prev, total) == prev + 1

\* ArrowRight that wraps as the playback tick does (mutant of KeyNextIndex)
KeyNextIndexWrapping(prev, total) == IF prev + 1 >= total THEN 0 ELSE prev + 1

\* (prev) => Math.min(prev + 1, total - 1)
KeyNextIndex(prev, total) == Min(prev + 1, total - 1)

\* A space key that advances by one image (mutant of SpaceIndex)
SpaceIndexSingleStep(prev, total) == Min(total - 1, prev + 1)

\* const jumpSize = Math.max(1, Math.floor(total / 50));
\* (prev) => Math.min(total - 1, prev + jumpSize)
SpaceIndex(prev, total) == Min(total - 1, prev + Max(1, total \div 50))

Keys == {"ArrowLeft", "a", "ArrowRight", "d", "Home", "End", " ", "x"}

\* handleKeyPress without its isPlayingRef guard (mutant of KeyPressIndex)
KeyPressIndexUnguarded(key, prev) ==
    LET total == keyHandlerTotal
    IN IF total = 0 THEN prev
       ELSE CASE key \in {"ArrowLeft", "a"}  -> PrevIndex(prev)
              [] key \in {"ArrowRight", "d"} -> KeyNextIndex(prev, total)
              [] key = "Home"                -> 0
              [] key = "End"                 -> total - 1
              [] key = " "                   -> SpaceIndex(prev, total)
              [] OTHER                       -> prev

\* handleKeyPress, as registered by the effect that last ran: the index the
\* key sets, given the state the updater is applied to
KeyPressIndex(key, prev) ==
    LET total == keyHandlerTotal
    IN IF isPlayingRef \/ total = 0 THEN prev
       ELSE CASE key \in {"ArrowLeft", "a"}  -> PrevIndex(prev)
              [] key \in {"ArrowRight", "d"} -> KeyNextIndex(prev, total)
              [] key = "Home"                -> 0
              [] key = "End"                 -> total - 1
              [] key = " "                   -> SpaceIndex(prev, total)
              [] OTHER                       -> prev

KeyDown(key) ==
    /\ mounted
    /\ Idle
    /\ currentImageIndex' = KeyPressIndex(key, currentImageIndex)
    /\ Rendered(IndexChange(currentImageIndex'))
    /\ lastEvent' = "key"
    /\ UNCHANGED <<dicomFiles, isPlaying, playSpeed, isPlayingRef, currentIndexRef,
                   keyHandlerTotal, playbackFrameRef, playbackFrames>>
    /\ UNCHANGED notViewerVars

\* nextImage: (prev) => imageCount === 0 ? 0 : Math.min(prev + 1, imageCount - 1)
NextImageIndex(prev) == IF imageCount = 0 THEN 0 ELSE Min(prev + 1, imageCount - 1)

\* The "Next image" button; disabled buttons take no clicks
NextImage ==
    /\ mounted
    /\ Idle
    /\ ~(currentImageIndex = imageCount - 1 \/ isPlaying \/ imageCount = 0)
    /\ currentImageIndex' = NextImageIndex(currentImageIndex)
    /\ Rendered(IndexChange(currentImageIndex'))
    /\ lastEvent' = "next"
    /\ UNCHANGED <<dicomFiles, isPlaying, playSpeed, isPlayingRef, currentIndexRef,
                   keyHandlerTotal, playbackFrameRef, playbackFrames>>
    /\ UNCHANGED notViewerVars

\* The "Previous image" button
PrevImage ==
    /\ mounted
    /\ Idle
    /\ ~(currentImageIndex = 0 \/ isPlaying \/ imageCount = 0)
    /\ currentImageIndex' = PrevIndex(currentImageIndex)
    /\ Rendered(IndexChange(currentImageIndex'))
    /\ lastEvent' = "prev"
    /\ UNCHANGED <<dicomFiles, isPlaying, playSpeed, isPlayingRef, currentIndexRef,
                   keyHandlerTotal, playbackFrameRef, playbackFrames>>
    /\ UNCHANGED notViewerVars

\* goToImage without Math.max and Math.min (mutant of GoToImageIndex)
GoToImageIndexUnclamped(index) == IF imageCount = 0 THEN currentImageIndex ELSE index

\* goToImage(index): the index it leaves
GoToImageIndex(index) ==
    IF imageCount = 0 THEN currentImageIndex
    ELSE Max(0, Min(index, imageCount - 1))

GoToImage(index) ==
    /\ currentImageIndex' = GoToImageIndex(index)
    /\ Rendered(IndexChange(currentImageIndex'))
    /\ UNCHANGED <<dicomFiles, isPlaying, playSpeed, isPlayingRef, currentIndexRef,
                   keyHandlerTotal, playbackFrameRef, playbackFrames>>
    /\ UNCHANGED notViewerVars

\* The First, Mid and Last buttons, disabled={isPlaying || imageCount === 0}
JumpButton(which) ==
    /\ mounted
    /\ Idle
    /\ ~(isPlaying \/ imageCount = 0)
    /\ GoToImage(CASE which = "First" -> 0
                   [] which = "Mid"   -> imageCount \div 2
                   [] which = "Last"  -> imageCount - 1)
    /\ lastEvent' = "jump"

\* The image scrubber: min 0, max Math.max(0, imageCount - 1), disabled while
\* playing or empty, so its onChange runs with isPlaying false
SliderChange(value) ==
    /\ mounted
    /\ Idle
    /\ ~(isPlaying \/ imageCount = 0)
    /\ value \in 0..Max(0, imageCount - 1)
    /\ GoToImage(value)
    /\ lastEvent' = "slider"

\* togglePlayback; the button is disabled={imageCount <= 1}
TogglePlayback ==
    /\ mounted
    /\ Idle
    /\ imageCount > 1
    /\ isPlaying' = ~isPlaying
    /\ Rendered({"isPlaying"})
    /\ lastEvent' = "toggle"
    /\ UNCHANGED <<dicomFiles, currentImageIndex, playSpeed, isPlayingRef,
                   currentIndexRef, keyHandlerTotal, playbackFrameRef, playbackFrames>>
    /\ UNCHANGED notViewerVars

\* changePlaySpeed(speed)
ChangePlaySpeed(speed) ==
    /\ mounted
    /\ Idle
    /\ playSpeed' = speed
    /\ Rendered(IF speed # playSpeed THEN {"playSpeed"} ELSE {})
    /\ lastEvent' = "speed"
    /\ UNCHANGED <<dicomFiles, currentImageIndex, isPlaying, isPlayingRef,
                   currentIndexRef, keyHandlerTotal, playbackFrameRef, playbackFrames>>
    /\ UNCHANGED notViewerVars

\* The parent renders the viewer with another dicomFiles array: the component
\* renders with the new prop and the state it had.
ChangeSeries(files) ==
    /\ mounted
    /\ Idle
    /\ files # dicomFiles
    /\ dicomFiles' = files
    /\ Rendered({"dicomFiles"}
                  \cup (IF files.length # imageCount THEN {"imageCount"} ELSE {}))
    /\ lastEvent' = "series"
    /\ UNCHANGED <<currentImageIndex, isPlaying, playSpeed, isPlayingRef,
                   currentIndexRef, keyHandlerTotal, playbackFrameRef, playbackFrames>>
    /\ UNCHANGED notViewerVars

----------------------------------------------------------------------------
(* DicomViewer: playback *)

\* requestAnimationFrame: an id no pending frame has
NewFrameId(frames) == CHOOSE n \in 1..(Cardinality(frames) + 1) :
                          \A f \in frames : f.id # n

\* cancelAnimationFrame(id)
CancelFrame(frames, id) == {f \in frames : f.id # id}

\* A tick that stays on the last frame (mutant of TickNextIndex)
TickNextIndexSaturating(prev, total) == IF prev + 1 >= total THEN total - 1 ELSE prev + 1

\* (prev) => { const next = prev + 1; return next >= imageCount ? 0 : next; }
TickNextIndex(prev, total) == IF prev + 1 >= total THEN 0 ELSE prev + 1

\* tick(time), the callback of a requested frame f, delta milliseconds after the
\* frame before it: f.total, f.interval and f.elapsed are the imageCount,
\* targetInterval and time - lastFrameTime of its closure.
PlaybackTick(f, delta) ==
    LET elapsed == f.elapsed + delta
        due     == elapsed >= f.interval
        rest    == playbackFrames \ {f}
        id      == NewFrameId(rest)
    IN /\ Idle
       /\ f \in playbackFrames
       /\ currentImageIndex' =
              IF due THEN TickNextIndex(currentImageIndex, f.total)
              ELSE currentImageIndex
       /\ Rendered(IndexChange(currentImageIndex'))
       /\ playbackFrames' = rest \cup {[f EXCEPT !.id = id,
                                                !.elapsed = IF due THEN 0 ELSE elapsed]}
       /\ playbackFrameRef' = id
       /\ lastEvent' = IF due THEN "tick" ELSE "frame"
       /\ UNCHANGED <<dicomFiles, isPlaying, playSpeed, isPlayingRef, currentIndexRef,
                      keyHandlerTotal>>
       /\ UNCHANGED notViewerVars

----------------------------------------------------------------------------
(* DicomViewer: loading images *)

\* How many cornerstone.loadImage promises may be pending at once
MaxLoads == 2

\* An imageId is `wadouri:${file}` of a file of a dicomFiles array; NoImage is
\* imageIds[index] where the array has no such index
NoImage == [list |-> 0, index |-> 0]

NoDisplay == [imageId |-> NoImage, enabled |-> TRUE]

\* imageIds[index]
ImageIdAt(files, index) ==
    IF index \in 0..(files.length - 1) THEN [list |-> files.id, index |-> index]
    ELSE NoImage

\* loadImage up to its await: if (!imageId) return; cornerstone.loadImage(imageId)
StartLoad(pending, imageId) ==
    IF imageId = NoImage THEN pending ELSE pending \cup {imageId}

\* useEffect(() => { if (isInitialized && imageCount > 0 && elementRef.current)
\*   loadImage(currentImageIndex); }, [isInitialized, imageCount,
\* currentImageIndex, loadImage]): loadImage changes with imageIds
LoadEffectRuns ==
    pendingEffects \cap {"dicomFiles", "imageCount", "currentImageIndex"} # {}

LoadEffect ==
    IF LoadEffectRuns /\ mounted /\ isInitialized /\ imageCount > 0
    THEN StartLoad(loads, ImageIdAt(dicomFiles, currentImageIndex))
    ELSE loads

----------------------------------------------------------------------------
(* DicomViewer: the effects of a committed render, in source order *)

SetIndex(value) == [state |-> "currentImageIndex", value |-> value]

SetPlaying(value) == [state |-> "isPlaying", value |-> value]

\* A reset that leaves isPlaying alone (mutant of ResetEffect)
ResetEffectKeepsPlaying(queue) ==
    IF "dicomFiles" \in pendingEffects
    THEN queue \o <<SetIndex(0)>>
    ELSE queue

\* A reset that starts playback (mutant of ResetEffect)
ResetEffectStartsPlayback(queue) ==
    IF "dicomFiles" \in pendingEffects
    THEN queue \o <<SetPlaying(TRUE), SetIndex(0)>>
    ELSE queue

\* useEffect(() => { setIsPlaying(false); setCurrentImageIndex(0); }, [dicomFiles])
ResetEffect(queue) ==
    IF "dicomFiles" \in pendingEffects
    THEN queue \o <<SetPlaying(FALSE), SetIndex(0)>>
    ELSE queue

\* A clamp that is off by one (mutant of ClampEffect)
ClampEffectOffByOne(queue) ==
    IF pendingEffects \cap {"currentImageIndex", "imageCount"} = {} THEN queue
    ELSE IF imageCount = 0 THEN Append(queue, SetIndex(0))
    ELSE IF currentImageIndex >= imageCount THEN Append(queue, SetIndex(imageCount))
    ELSE queue

\* useEffect(() => { if (imageCount === 0) setCurrentImageIndex(0);
\*   else if (currentImageIndex >= imageCount) setCurrentImageIndex(imageCount - 1);
\* }, [currentImageIndex, imageCount])
ClampEffect(queue) ==
    IF pendingEffects \cap {"currentImageIndex", "imageCount"} = {} THEN queue
    ELSE IF imageCount = 0 THEN Append(queue, SetIndex(0))
    ELSE IF currentImageIndex >= imageCount THEN Append(queue, SetIndex(imageCount - 1))
    ELSE queue

\* The state a hook ends with: the queued updates applied in order
RECURSIVE ApplyUpdates(_, _, _)
ApplyUpdates(queue, state, value) ==
    IF queue = <<>> THEN value
    ELSE ApplyUpdates(Tail(queue), state,
                      IF Head(queue).state = state THEN Head(queue).value ELSE value)

\* The playback effect, deps [imageCount, isPlaying, playSpeed]: the cleanup of
\* its previous run and its body both cancel the frame playbackFrameRef names;
\* the body then requests the first frame of a new tick loop if playing.
PlaybackEffectRuns ==
    pendingEffects \cap {"imageCount", "isPlaying", "playSpeed"} # {}

PlaybackEffectFrames ==
    LET cancelled == IF playbackFrameRef # NoFrame
                     THEN CancelFrame(playbackFrames, playbackFrameRef)
                     ELSE playbackFrames
    IN IF ~isPlaying \/ imageCount <= 1 THEN cancelled
       ELSE cancelled \cup {[id       |-> NewFrameId(cancelled),
                             total    |-> imageCount,
                             interval |-> TargetInterval(playSpeed),
                             elapsed  |-> 0]}

PlaybackEffectRef ==
    IF ~isPlaying \/ imageCount <= 1 THEN NoFrame
    ELSE NewFrameId(IF playbackFrameRef # NoFrame
                    THEN CancelFrame(playbackFrames, playbackFrameRef)
                    ELSE playbackFrames)

\* The effects of the committed render run in the order they are declared;
\* the state updates they queue are then processed and, if a value changed,
\* the component renders again.
RunEffects ==
    LET queue   == ClampEffect(ResetEffect(<<>>))
        index   == ApplyUpdates(queue, "currentImageIndex", currentImageIndex)
        playing == ApplyUpdates(queue, "isPlaying", isPlaying)
    IN /\ ~Idle
       /\ Cardinality(LoadEffect) <= MaxLoads
       /\ loads' = LoadEffect
       /\ isPlayingRef' = IF "isPlaying" \in pendingEffects THEN isPlaying
                          ELSE isPlayingRef
       /\ currentIndexRef' = IF "currentImageIndex" \in pendingEffects
                             THEN currentImageIndex ELSE currentIndexRef
       /\ keyHandlerTotal' = IF "imageCount" \in pendingEffects THEN imageCount
                             ELSE keyHandlerTotal
       /\ playbackFrames' = IF PlaybackEffectRuns THEN PlaybackEffectFrames
                            ELSE playbackFrames
       /\ playbackFrameRef' = IF PlaybackEffectRuns THEN PlaybackEffectRef
                              ELSE playbackFrameRef
       /\ currentImageIndex' = index
       /\ isPlaying' = playing
       /\ Rendered(IndexChange(index)
                     \cup (IF playing # isPlaying THEN {"isPlaying"} ELSE {}))
       /\ UNCHANGED <<dicomFiles, playSpeed, lastEvent>>
       /\ UNCHANGED <<mounted, viewerCornerstone, initPc, isCancelled, hasEnabledElement,
                      sizeObserver, elementEnabled, observing, lastDisplay>>
       /\ UNCHANGED <<resizeVars, notViewerParts>>

NextViewer ==
    \/ \E key \in Keys : KeyDown(key)
    \/ NextImage
    \/ PrevImage
    \/ \E which \in {"First", "Mid", "Last"} : JumpButton(which)
    \/ \E value \in 0..MaxImages : SliderChange(value)
    \/ TogglePlayback
    \/ \E speed \in SpeedOptions : ChangePlaySpeed(speed)
    \/ \E files \in FileLists : ChangeSeries(files)
    \/ \E f \in playbackFrames, delta \in FrameDeltas : PlaybackTick(f, delta)
    \/ RunEffects

----------------------------------------------------------------------------
(* DicomViewer: resize handling *)

NoTimeout == 0

\* setTimeout(..., 150) of debouncedResize, setTimeout(flushResize, 200) and
\* setTimeout(flushResize, 700) of handleOrientationChange, and
\* setTimeout(flushResize, 100) of handleMediaChange, in milliseconds
DebounceDelay == 150

OrientationDelays == {200, 700}

MediaDelay == 100

\* The time that may pass between two events, in milliseconds
TimeSteps == {50, 100}

\* How many orientation and media timeouts may be pending, and how many resize
\* events a burst may have
MaxFlushTimeouts == 2

MaxBurstEvents == 3

NoBurst == [events |-> 0, calls |-> 0, clean |-> TRUE]

\* The resize handling of a viewer that is not there
ResizeUnmounted ==
    /\ isInitialized = FALSE
    /\ isMobile = FALSE
    /\ resizeTimeoutRef = NoTimeout
    /\ resizeFrameRef = NoFrame
    /\ timeouts = {}
    /\ resizeFrames = {}
    /\ burst = NoBurst

\* The viewer after its first render: matchMedia has set isMobile, the library
\* import is pending, no listener is registered yet
InitResize ==
    /\ isInitialized = FALSE
    /\ isMobile \in BOOLEAN
    /\ resizeTimeoutRef = NoTimeout
    /\ resizeFrameRef = NoFrame
    /\ timeouts = {}
    /\ resizeFrames = {}
    /\ burst = NoBurst

\* setTimeout: an id no pending timeout has
NewTimeoutId(pending) == CHOOSE n \in 1..(Cardinality(pending) + 1) :
                             \A t \in pending : t.id # n

\* clearTimeout(id)
ClearTimeout(pending, id) == {t \in pending : t.id # id}

DebouncePending == {t \in timeouts : t.kind = "debounce"}

\* A timeout whose delay has passed runs before anything else does
TimeoutDue == \E t \in timeouts : t.remaining = 0

\* scheduleViewportResize, called for the burst of resize events (forBurst) or
\* for anything else: the pending frames and resizeFrameRef.current it leaves
ScheduleViewportResize(forBurst) ==
    IF ~mounted \/ ~isInitialized THEN [frames |-> resizeFrames, ref |-> resizeFrameRef]
    ELSE LET kept == IF resizeFrameRef # NoFrame
                     THEN CancelFrame(resizeFrames, resizeFrameRef)
                     ELSE resizeFrames
             id   == NewFrameId(kept)
         IN [frames |-> kept \cup {[id |-> id, forBurst |-> forBurst]}, ref |-> id]

\* Whether a call of scheduleViewportResize for something else cancels the
\* frame the burst requested
CancelsBurstFrame ==
    /\ mounted
    /\ isInitialized
    /\ \E f \in resizeFrames : f.id = resizeFrameRef /\ f.forBurst

\* A call of scheduleViewportResize that no resize event caused
ScheduleForOther ==
    LET after == ScheduleViewportResize(FALSE)
    IN /\ resizeFrames' = after.frames
       /\ resizeFrameRef' = after.ref
       /\ burst' = IF CancelsBurstFrame THEN [burst EXCEPT !.clean = FALSE] ELSE burst

\* enableElement() with an element that has a size, called once the imports
\* have resolved or by the ResizeObserver that waited for a size: the element
\* is enabled and setIsInitialized(true) has rendered. The resize effect
\* registers its listeners and calls flushResize(), the ResizeObserver effect
\* observes, the isMobile effect calls scheduleViewportResize() again, and the
\* load effect loads the current image.
ViewerInitialized ==
    /\ mounted
    /\ Idle
    /\ initPc \in {"importing", "waitingSize"}
    /\ ~isInitialized
    /\ viewerCornerstone' = TRUE
    /\ initPc' = "done"
    /\ sizeObserver' = FALSE
    /\ hasEnabledElement' = TRUE
    /\ elementEnabled' = TRUE
    /\ isInitialized' = TRUE
    /\ observing' = TRUE
    /\ resizeFrames' = {[id |-> 1, forBurst |-> FALSE]}
    /\ resizeFrameRef' = 1
    /\ loads' = IF imageCount > 0
                THEN StartLoad(loads, ImageIdAt(dicomFiles, currentImageIndex))
                ELSE loads
    /\ UNCHANGED <<isMobile, resizeTimeoutRef, timeouts, burst>>
    /\ UNCHANGED <<mounted, isCancelled, lastDisplay>>
    /\ UNCHANGED <<viewerVars, notViewerParts>>

\* debouncedResize without its clearTimeout (mutant of DebounceCleared)
DebounceNotCleared(pending) == pending

\* if (resizeTimeoutRef.current) clearTimeout(resizeTimeoutRef.current);
DebounceCleared(pending) ==
    IF resizeTimeoutRef # NoTimeout THEN ClearTimeout(pending, resizeTimeoutRef)
    ELSE pending

\* A window 'resize' event: debouncedResize. The event opens a burst if the
\* timeout of the event before it has run (150 ms or more have passed).
WindowResize ==
    LET kept  == DebounceCleared(timeouts)
        id    == NewTimeoutId(kept)
        opens == DebouncePending = {}
    IN /\ mounted
       /\ isInitialized
       /\ ~TimeoutDue
       /\ opens \/ burst.events < MaxBurstEvents
       /\ timeouts' = kept \cup {[id |-> id, kind |-> "debounce",
                                  remaining |-> DebounceDelay]}
       /\ resizeTimeoutRef' = id
       /\ burst' = IF opens THEN [events |-> 1, calls |-> 0, clean |-> TRUE]
                   ELSE [burst EXCEPT !.events = @ + 1]
       /\ resizeFrames' = IF opens
                          THEN {[f EXCEPT !.forBurst = FALSE] : f \in resizeFrames}
                          ELSE resizeFrames
       /\ UNCHANGED <<isInitialized, isMobile, resizeFrameRef>>
       /\ UNCHANGED notResizeVars

RECURSIVE SetTimeouts(_, _)
SetTimeouts(pending, delays) ==
    IF delays = {} THEN pending
    ELSE LET d == CHOOSE x \in delays : TRUE
         IN SetTimeouts(pending \cup {[id |-> NewTimeoutId(pending), kind |-> "flush",
                                        remaining |-> d]},
                        delays \ {d})

\* A window 'orientationchange' event: handleOrientationChange
OrientationChange ==
    /\ mounted
    /\ isInitialized
    /\ ~TimeoutDue
    /\ Cardinality(timeouts \ DebouncePending) + 2 <= MaxFlushTimeouts
    /\ timeouts' = SetTimeouts(timeouts, OrientationDelays)
    /\ UNCHANGED <<isInitialized, isMobile, resizeTimeoutRef, resizeFrameRef,
                   resizeFrames, burst>>
    /\ UNCHANGED notResizeVars

\* A 'change' event of the (max-width: 768px) query: handleMediaChange
MediaChange ==
    /\ mounted
    /\ isInitialized
    /\ ~TimeoutDue
    /\ Cardinality(timeouts \ DebouncePending) + 1 <= MaxFlushTimeouts
    /\ timeouts' = SetTimeouts(timeouts, {MediaDelay})
    /\ UNCHANGED <<isInitialized, isMobile, resizeTimeoutRef, resizeFrameRef,
                   resizeFrames, burst>>
    /\ UNCHANGED notResizeVars

\* A 'change' event of the (max-width: 767px) query: setIsMobile renders and
\* the isMobile effect calls scheduleViewportResize if initialized
MobileChange ==
    /\ mounted
    /\ ~TimeoutDue
    /\ isMobile' = ~isMobile
    /\ ScheduleForOther
    /\ UNCHANGED <<isInitialized, resizeTimeoutRef, timeouts>>
    /\ UNCHANGED notResizeVars

\* The ResizeObserver of the container and the controls reports a size
ObserverCallback ==
    /\ observing
    /\ isInitialized
    /\ ~TimeoutDue
    /\ ScheduleForOther
    /\ UNCHANGED <<isInitialized, isMobile, resizeTimeoutRef, timeouts>>
    /\ UNCHANGED notResizeVars

\* The callback of a timeout whose delay has passed: flushResize(), and for
\* the debounce timeout resizeTimeoutRef.current = null
TimeoutFires(t) ==
    /\ t \in timeouts
    /\ t.remaining = 0
    /\ timeouts' = timeouts \ {t}
    /\ IF t.kind = "debounce"
       THEN LET after == ScheduleViewportResize(TRUE)
            IN /\ resizeFrames' = after.frames
               /\ resizeFrameRef' = after.ref
               /\ resizeTimeoutRef' = NoTimeout
               /\ burst' = burst
       ELSE /\ ScheduleForOther
            /\ resizeTimeoutRef' = resizeTimeoutRef
    /\ UNCHANGED <<isInitialized, isMobile>>
    /\ UNCHANGED notResizeVars

\* The callback of a requested resize frame: applyViewportToFit() is called
\* and resizeFrameRef.current = null
ResizeFrameRuns(f) ==
    /\ f \in resizeFrames
    /\ ~TimeoutDue
    /\ resizeFrames' = resizeFrames \ {f}
    /\ resizeFrameRef' = NoFrame
    /\ burst' = IF f.forBurst THEN [burst EXCEPT !.calls = Min(@ + 1, 2)] ELSE burst
    /\ UNCHANGED <<isInitialized, isMobile, resizeTimeoutRef, timeouts>>
    /\ UNCHANGED notResizeVars

\* Time passes: not past a pending timeout, and not while a frame is
\* requested, which the browser runs within a display refresh
TimePasses(ms) ==
    /\ resizeFrames = {}
    /\ timeouts # {}
    /\ \A t \in timeouts : t.remaining >= ms
    /\ timeouts' = {[t EXCEPT !.remaining = @ - ms] : t \in timeouts}
    /\ UNCHANGED <<isInitialized, isMobile, resizeTimeoutRef, resizeFrameRef,
                   resizeFrames, burst>>
    /\ UNCHANGED notResizeVars

NextResize ==
    \/ ViewerInitialized
    \/ WindowResize
    \/ OrientationChange
    \/ MediaChange
    \/ MobileChange
    \/ ObserverCallback
    \/ \E t \in timeouts : TimeoutFires(t)
    \/ \E f \in resizeFrames : ResizeFrameRuns(f)
    \/ \E ms \in TimeSteps : TimePasses(ms)

----------------------------------------------------------------------------
(* DicomViewer: the library, the viewer element and unmounting *)

\* The init effect of a component that has just mounted for the first time:
\* cornerstone is not set and initializeCornerstone() awaits the imports
InitLife ==
    /\ mounted = TRUE
    /\ viewerCornerstone = FALSE
    /\ initPc = "importing"
    /\ isCancelled = FALSE
    /\ hasEnabledElement = FALSE
    /\ sizeObserver = FALSE
    /\ elementEnabled = FALSE
    /\ observing = FALSE
    /\ loads = {}
    /\ lastDisplay = NoDisplay

\* No viewer has been rendered
NoViewer ==
    /\ mounted = FALSE
    /\ viewerCornerstone = FALSE
    /\ initPc = "none"
    /\ isCancelled = FALSE
    /\ hasEnabledElement = FALSE
    /\ sizeObserver = FALSE
    /\ elementEnabled = FALSE
    /\ observing = FALSE
    /\ loads = {}
    /\ lastDisplay = NoDisplay

\* The imports resolve and enableElement() meets an element whose
\* getBoundingClientRect() has no width or height: it observes the element with
\* a new ResizeObserver and returns. An element that is laid out may have no
\* size; the element of an unmounted component is detached and has none.
ElementHasNoSize ==
    /\ initPc = "importing"
    /\ viewerCornerstone' = TRUE
    /\ initPc' = "waitingSize"
    /\ sizeObserver' = TRUE
    /\ UNCHANGED <<mounted, isCancelled, hasEnabledElement, elementEnabled, observing,
                   loads, lastDisplay>>
    /\ UNCHANGED <<viewerVars, resizeVars, notViewerParts>>

\* The imports reject: the catch block of initializeCornerstone logs
ImportFails ==
    /\ initPc = "importing"
    /\ initPc' = "failed"
    /\ UNCHANGED <<mounted, viewerCornerstone, isCancelled, hasEnabledElement,
                   sizeObserver, elementEnabled, observing, loads, lastDisplay>>
    /\ UNCHANGED <<viewerVars, resizeVars, notViewerParts>>

\* The promise of cornerstone.loadImage(imageId) resolves: loadImage calls
\* cornerstone.displayImage(element, image) on the element it read before the
\* await, then getEnabledElement and setViewport. On an element that is not
\* enabled displayImage throws and the catch block logs.
LoadResolves(imageId) ==
    /\ imageId \in loads
    /\ loads' = loads \ {imageId}
    /\ lastDisplay' = [imageId |-> imageId, enabled |-> elementEnabled]
    /\ UNCHANGED <<mounted, viewerCornerstone, initPc, isCancelled, hasEnabledElement,
                   sizeObserver, elementEnabled, observing>>
    /\ UNCHANGED <<viewerVars, resizeVars, notViewerParts>>

\* The promise of cornerstone.loadImage(imageId) rejects: the catch block logs
LoadRejects(imageId) ==
    /\ imageId \in loads
    /\ loads' = loads \ {imageId}
    /\ UNCHANGED <<mounted, viewerCornerstone, initPc, isCancelled, hasEnabledElement,
                   sizeObserver, elementEnabled, observing, lastDisplay>>
    /\ UNCHANGED <<viewerVars, resizeVars, notViewerParts>>

\* A cleanup of the resize effect that leaves the orientation and media
\* timeouts (mutant of ResizeCleanupTimeouts)
ResizeCleanupKeepsFlush(pending) == DebounceCleared(pending)

\* The cleanup of the resize effect: clearTimeout(resizeTimeoutRef.current) and
\* orientationTimeouts.forEach((timeoutId) => clearTimeout(timeoutId))
ResizeCleanupTimeouts(pending) == {t \in DebounceCleared(pending) : t.kind # "flush"}

\* A cleanup that cancels no frame (mutant of CleanupFrames)
CleanupFramesKept(frames, ref) == frames

\* if (ref.current !== null) cancelAnimationFrame(ref.current), of the cleanups
CleanupFrames(frames, ref) == IF ref # NoFrame THEN CancelFrame(frames, ref) ELSE frames

\* The component unmounts: the cleanups of its effects run in the order the
\* effects are declared. The resize effect removes its listeners and clears its
\* timeouts and frame, the ResizeObserver effect disconnects, the init effect
\* sets isCancelled, disconnects its ResizeObserver, disables the element if
\* hasEnabledElement and cancels the frames and the timeout again, the key
\* effect removes its listener and the playback effect cancels its frame.
Unmount ==
    /\ mounted
    /\ Idle
    /\ mounted' = FALSE
    /\ isCancelled' = TRUE
    /\ sizeObserver' = FALSE
    /\ observing' = FALSE
    /\ elementEnabled' = (elementEnabled /\ ~(hasEnabledElement /\ viewerCornerstone))
    /\ timeouts' = ResizeCleanupTimeouts(timeouts)
    /\ resizeTimeoutRef' = NoTimeout
    /\ resizeFrames' = CleanupFrames(resizeFrames, resizeFrameRef)
    /\ resizeFrameRef' = NoFrame
    /\ playbackFrames' = CleanupFrames(playbackFrames, playbackFrameRef)
    /\ playbackFrameRef' = NoFrame
    /\ lastEvent' = "unmount"
    /\ UNCHANGED <<viewerCornerstone, initPc, hasEnabledElement, loads, lastDisplay>>
    /\ UNCHANGED <<isInitialized, isMobile, burst>>
    /\ UNCHANGED <<dicomFiles, currentImageIndex, isPlaying, playSpeed, isPlayingRef,
                   currentIndexRef, keyHandlerTotal, pendingEffects>>
    /\ UNCHANGED notViewerParts

\* The viewer from mount to unmount: the init effect, navigation by the
\* buttons, series changes and the image loads they start
NextLife ==
    \/ ViewerInitialized
    \/ ElementHasNoSize
    \/ ImportFails
    \/ NextImage
    \/ PrevImage
    \/ \E files \in FileLists : ChangeSeries(files)
    \/ RunEffects
    \/ \E imageId \in loads : LoadResolves(imageId)
    \/ \E imageId \in loads : LoadRejects(imageId)
    \/ \E f \in resizeFrames : ResizeFrameRuns(f)
    \/ Unmount

\* Navigation and playback until the component unmounts
NextViewerUnmount ==
    \/ NextViewer
    \/ Unmount

\* Resize handling until the component unmounts
NextResizeUnmount ==
    \/ NextResize
    \/ Unmount

----------------------------------------------------------------------------
(* DicomThumbnail *)

\* How many thumbnails are rendered, and how many effect runs they have in all
NumThumbs == 2

MaxRuns == 3

\* The dicomFile props; "" is the empty path
ThumbFiles == {"", "a.dcm", "b.dcm"}

Blank == [drawn |-> "blank", file |-> ""]

\* context.drawImage(tempCanvas, ...) of the decoded file
Image(file) == [drawn |-> "image", file |-> file]

\* The grey square with "IMG" of the catch block
Placeholder == [drawn |-> "placeholder", file |-> ""]

UnusedRun ==
    [thumb |-> 0, file |-> "", pc |-> "unused", isCancelled |-> FALSE,
     initialized |-> FALSE, result |-> "none"]

\* No thumbnail is rendered
NoThumbnails ==
    /\ cornerstone = FALSE
    /\ isConfigured = FALSE
    /\ configureCalls = 0
    /\ thumbs = <<>>
    /\ runs = <<>>

\* The thumbnails after their first render: each effect has called
\* scheduleLoad(), no idle callback has run
InitThumbs ==
    /\ cornerstone = FALSE
    /\ isConfigured = FALSE
    /\ configureCalls = 0
    /\ thumbs \in [1..NumThumbs -> [mounted : {TRUE}, dicomFile : ThumbFiles,
                                    canvas : {Blank}]]
    /\ runs = [r \in 1..MaxRuns |->
                  IF r <= NumThumbs
                  THEN [UnusedRun EXCEPT !.thumb = r, !.file = thumbs[r].dicomFile,
                                          !.pc = "scheduled"]
                  ELSE UnusedRun]

Ended(run, result) == [run EXCEPT !.pc = "done", !.result = result]

\* The idle callback (or the timeout) of a run: runLoad up to its first await.
\* initializeCornerstone() awaits the imports if neither isConfigured nor
\* cornerstone is set, and returns isConfigured otherwise.
RunLoad(r) ==
    LET run == runs[r]
    IN /\ run.pc = "scheduled"
       /\ runs' = [runs EXCEPT ![r] =
              IF run.isCancelled \/ ~thumbs[run.thumb].mounted \/ run.file = ""
              THEN Ended(run, "skipped")
              ELSE IF ~isConfigured /\ ~cornerstone
              THEN [run EXCEPT !.pc = "importing"]
              ELSE [run EXCEPT !.pc = "initialized", !.initialized = isConfigured]]
       /\ UNCHANGED <<cornerstone, isConfigured, configureCalls, thumbs>>
       /\ UNCHANGED notThumbVars

\* The imports of a run's initializeCornerstone() settle: the modules are
\* stored and configured and the call returns true, or the catch returns false
ImportsSettle(r, ok) ==
    /\ runs[r].pc = "importing"
    /\ runs' = [runs EXCEPT ![r].pc = "initialized", ![r].initialized = ok]
    /\ cornerstone' = (cornerstone \/ ok)
    /\ isConfigured' = (isConfigured \/ ok)
    /\ configureCalls' = IF ok THEN Min(configureCalls + 1, MaxRuns) ELSE configureCalls
    /\ UNCHANGED thumbs
    /\ UNCHANGED notThumbVars

\* runLoad after await initializeCornerstone(): it returns if cancelled or not
\* initialized, and otherwise sizes the canvas (which clears it) and calls
\* cornerstone.loadImage
InitReturns(r) ==
    LET run == runs[r]
    IN /\ run.pc = "initialized"
       /\ IF run.isCancelled
          THEN /\ runs' = [runs EXCEPT ![r] = [Ended(run, "cancelled")
                                                   EXCEPT !.initialized = FALSE]]
               /\ UNCHANGED thumbs
          ELSE IF ~run.initialized
          THEN /\ runs' = [runs EXCEPT ![r] = Ended(run, "initFailed")]
               /\ UNCHANGED thumbs
          ELSE /\ runs' = [runs EXCEPT ![r].pc = "loading"]
               /\ thumbs' = [thumbs EXCEPT ![run.thumb].canvas = Blank]
       /\ UNCHANGED <<cornerstone, isConfigured, configureCalls>>
       /\ UNCHANGED notThumbVars

\* A catch block that only logs (mutant of CatchCanvas)
CatchCanvasLogOnly(run, canvas) == canvas

\* catch (err): the fallback is drawn if (!isCancelled && canvasRef.current)
CatchCanvas(run, canvas) ==
    IF ~run.isCancelled /\ thumbs[run.thumb].mounted THEN Placeholder ELSE canvas

\* cornerstone.loadImage settles: it rejects ("loadError"), or it resolves and
\* the pixel data is converted and drawn ("ok") unless that throws
\* ("decodeError")
ImageSettles(r, outcome) ==
    LET run    == runs[r]
        canvas == thumbs[run.thumb].canvas
    IN /\ run.pc = "loading"
       /\ CASE outcome = "loadError" ->
                 /\ runs' = [runs EXCEPT ![r] = Ended(run, "loadFailed")]
                 /\ thumbs' = [thumbs EXCEPT ![run.thumb].canvas = CatchCanvas(run, canvas)]
            [] run.isCancelled ->
                 /\ runs' = [runs EXCEPT ![r] = [Ended(run, "cancelled")
                                                     EXCEPT !.initialized = FALSE]]
                 /\ UNCHANGED thumbs
            [] outcome = "decodeError" ->
                 /\ runs' = [runs EXCEPT ![r] = Ended(run, "decodeFailed")]
                 /\ thumbs' = [thumbs EXCEPT ![run.thumb].canvas = CatchCanvas(run, canvas)]
            [] OTHER ->
                 /\ runs' = [runs EXCEPT ![r] = Ended(run, "drawn")]
                 /\ thumbs' = [thumbs EXCEPT ![run.thumb].canvas = Image(run.file)]
       /\ UNCHANGED <<cornerstone, isConfigured, configureCalls>>
       /\ UNCHANGED notThumbVars

\* A cleanup that does not set isCancelled (mutant of Cancelled)
CancelledNotSet(run) == run

\* A run whose isCancelled is set draws nothing any more: what is left of it
\* is how far it is and what initializeCornerstone returned to it
Cancelled(run) == [run EXCEPT !.isCancelled = TRUE, !.file = ""]

\* The cleanup of the effect runs of thumbnail t: isCancelled = true, and the
\* idle callback or timeout that has not run is cancelled
Cleanup(t) ==
    [r \in 1..MaxRuns |->
        IF runs[r].thumb # t \/ runs[r].pc = "unused" THEN runs[r]
        ELSE IF runs[r].pc \in {"scheduled", "done"}
        THEN [Cancelled(Ended(runs[r], "cancelled")) EXCEPT !.initialized = FALSE]
        ELSE Cancelled(runs[r])]

FreeRuns == {r \in 1..MaxRuns : runs[r].pc = "unused"}

\* The parent renders thumbnail t with another dicomFile: the cleanup of the
\* effect runs, then the effect again
ChangeFile(t, file) ==
    /\ thumbs[t].mounted
    /\ file # thumbs[t].dicomFile
    /\ FreeRuns # {}
    /\ LET r == CHOOSE x \in FreeRuns : \A y \in FreeRuns : x <= y
       IN runs' = [Cleanup(t) EXCEPT ![r] =
                      [UnusedRun EXCEPT !.thumb = t, !.file = file, !.pc = "scheduled"]]
    /\ thumbs' = [thumbs EXCEPT ![t].dicomFile = file]
    /\ UNCHANGED <<cornerstone, isConfigured, configureCalls>>
    /\ UNCHANGED notThumbVars

\* Thumbnail t unmounts: the cleanup of the effect runs, canvasRef.current is
\* null and the canvas and the props are gone
UnmountThumb(t) ==
    /\ thumbs[t].mounted
    /\ runs' = Cleanup(t)
    /\ thumbs' = [thumbs EXCEPT ![t] = [mounted |-> FALSE, dicomFile |-> "",
                                        canvas |-> Blank]]
    /\ UNCHANGED <<cornerstone, isConfigured, configureCalls>>
    /\ UNCHANGED notThumbVars

NextThumbs ==
    \/ \E r \in 1..MaxRuns : RunLoad(r)
    \/ \E r \in 1..MaxRuns, ok \in BOOLEAN : ImportsSettle(r, ok)
    \/ \E r \in 1..MaxRuns : InitReturns(r)
    \/ \E r \in 1..MaxRuns, outcome \in {"ok", "loadError", "decodeError"} :
           ImageSettles(r, outcome)
    \/ \E t \in 1..NumThumbs, file \in ThumbFiles : ChangeFile(t, file)
    \/ \E t \in 1..NumThumbs : UnmountThumb(t)

----------------------------------------------------------------------------
(* GET /api/dicom-files: inputs *)

\* A tag dataSet.string() does not find (undefined), or finds empty: both falsy.
NoTag == <<>>

\* dataSet.intString() of a tag that is not there (undefined)
NoNumber == -1

Dcm == <<".", "d", "c", "m">>

Dicom == <<".", "d", "i", "c", "o", "m">>

DicomPrefix == <<"/", "d", "i", "c", "o", "m", "/">>

UnknownStudy == <<"u", "n", "k", "n", "o", "w", "n", "-", "s", "t", "u", "d", "y">>

UnknownSeries == <<"u", "n", "k", "n", "o", "w", "n", "-", "s", "e", "r", "i", "e", "s">>

Unknown == <<"u", "n", "k", "n", "o", "w", "n">>

\* Series with at most this many instances count as scouts in the series sort.
ScoutMax == 5

\* How many files of the directory may carry arbitrary names and contents.
MaxFiles == 2

\* "b.10.dcm", "b.15.dicom", "b.9.DCM", "n.txt", "1.2.3.4.5.6.7.8.dcm",
\* "1.2.3.4.5.6.7.constructor.dcm"
FreeNames ==
    { <<"b", ".", "1", "0", ".", "d", "c", "m">>,
      <<"b", ".", "1", "5", ".", "d", "i", "c", "o", "m">>,
      <<"b", ".", "9", ".", "D", "C", "M">>,
      <<"n", ".", "t", "x", "t">>,
      <<"1", ".", "2", ".", "3", ".", "4", ".", "5", ".", "6", ".", "7", ".", "8",
        ".", "d", "c", "m">>,
      <<"1", ".", "2", ".", "3", ".", "4", ".", "5", ".", "6", ".", "7", ".",
        "c", "o", "n", "s", "t", "r", "u", "c", "t", "o", "r", ".", "d", "c", "m">> }

\* "b.1.dcm" .. "b.6.dcm": one more file than a scout series may hold, present
\* together or not at all, so that a series of more than ScoutMax files occurs.
BulkNames == { <<"b", ".", Digits[i + 1]>> \o Dcm : i \in 1..(ScoutMax + 1) }

SeriesUIDs == { <<"1", ".", "1">> }

StudyUIDs == { <<"9", ".", "1">>, <<"9", ".", "2">> }

\* What readFileSync + parseDicom give for one file: a failure (ok = FALSE), or
\* the tags x0020000d, x0020000e and x00200011 of the data set.
ParseFailure == [ok |-> FALSE, study |-> NoTag, series |-> NoTag, number |-> NoNumber]

ParseResults ==
    {ParseFailure} \cup
    [ok : {TRUE}, study : StudyUIDs, series : SeriesUIDs \cup {NoTag},
     number : {NoNumber, 1}]

BulkResults ==
    [ok : {TRUE}, study : { <<"9", ".", "1">> }, series : SeriesUIDs,
     number : {NoNumber, 1}]

\* The response before GET has run, and the two shapes NextResponse.json returns.
NoResponse == [status |-> 0, series |-> <<>>, error |-> ""]

SeriesResponse(list) == [status |-> 200, series |-> list, error |-> ""]

ErrorResponse == [status |-> 500, series |-> <<>>, error |-> "Failed to read DICOM files"]

----------------------------------------------------------------------------
(* GET /api/dicom-files: the handler *)

\* file.toLowerCase().endsWith('.dcm') || file.toLowerCase().endsWith('.dicom')
IsDicomName(file) ==
    EndsWith(ToLowerCase(file), Dcm) \/ EndsWith(ToLowerCase(file), Dicom)

\* Some enumeration of a set, as readdirSync returns the entries in some order.
RECURSIVE SetToSeq(_)
SetToSeq(S) ==
    IF S = {} THEN <<>>
    ELSE LET x == CHOOSE y \in S : TRUE IN <<x>> \o SetToSeq(S \ {x})

\* filename.match(/\.(\d+)\.dcm$/): the digits between a dot and a final ".dcm"
ExtractInstanceNumber(filename) ==
    LET n == Len(filename) - Len(Dcm)
        \* where the run of digits that ends at position i starts
        RunStart[i \in 0..n] ==
            IF i = 0 THEN 1
            ELSE IF IsDigit(filename[i]) THEN RunStart[i - 1] ELSE i + 1
    IN IF ~EndsWith(filename, Dcm) THEN NULL
       ELSE LET s == RunStart[n]
            IN IF s <= n /\ s >= 2 /\ filename[s - 1] = "."
               THEN ParseInt(SubSeq(filename, s, n))
               ELSE NULL

\* The comparator of files.sort(...) within one series
FileCompare(a, b) ==
    LET aNum == ExtractInstanceNumber(a)
        bNum == ExtractInstanceNumber(b)
    IN IF aNum # NULL /\ bNum # NULL THEN aNum - bNum ELSE LocaleCompare(a, b)

\* A series sort that forgets the series number (mutant of SeriesCompare)
SeriesCompareCountOnly(a, b) ==
    IF a.instanceCount <= ScoutMax /\ b.instanceCount > ScoutMax THEN -1
    ELSE IF a.instanceCount > ScoutMax /\ b.instanceCount <= ScoutMax THEN 1
    ELSE a.instanceCount - b.instanceCount

\* The comparator of series.sort(...)
SeriesCompare(a, b) ==
    IF a.seriesNumber # b.seriesNumber THEN a.seriesNumber - b.seriesNumber
    ELSE IF a.instanceCount <= ScoutMax /\ b.instanceCount > ScoutMax THEN -1
    ELSE IF a.instanceCount > ScoutMax /\ b.instanceCount <= ScoutMax THEN 1
    ELSE a.instanceCount - b.instanceCount

\* A key that is a canonical array index: Object.entries lists these first, in
\* ascending numeric order, before the other keys in insertion order.
IsIndexKey(key) ==
    /\ Len(key) >= 1
    /\ \A i \in 1..Len(key) : IsDigit(key[i])
    /\ (Len(key) > 1 => key[1] # "0")

IndexKeyCompare(a, b) == ParseInt(a) - ParseInt(b)

(* Array.prototype.sort(comparefn) as the runtime of the route handler (V8)  *)
(* runs it on arrays shorter than 64 elements: the leading run is counted    *)
(* (and reversed if strictly descending), the rest is inserted by binary     *)
(* insertion. With a consistent comparator this is the stable sorted order.  *)

Reverse(s) == [i \in 1..Len(s) |-> s[Len(s) + 1 - i]]

\* The comparators the route handler sorts with, by name
Compare(by, a, b) ==
    CASE by = "codeUnits" -> SortCompare(a, b)
      [] by = "files"     -> FileCompare(a, b)
      [] by = "series"    -> SeriesCompare(a, b)
      [] by = "indexKeys" -> IndexKeyCompare(a, b)

\* where the leading run of a ends: the first i with a[i] out of order, or Len(a)+1
RECURSIVE RunEnd(_, _, _, _)
RunEnd(by, a, desc, i) ==
    IF i > Len(a) THEN i
    ELSE IF (IF desc THEN Compare(by, a[i], a[i - 1]) < 0
                     ELSE Compare(by, a[i], a[i - 1]) >= 0)
         THEN RunEnd(by, a, desc, i + 1)
         ELSE i

\* binary search of the insertion point of pivot in w[left..right-1]
RECURSIVE FindSlot(_, _, _, _, _)
FindSlot(by, w, pivot, left, right) ==
    IF left >= right THEN left
    ELSE LET mid == left + ((right - left) \div 2)
         IN IF Compare(by, pivot, w[mid]) < 0
            THEN FindSlot(by, w, pivot, left, mid)
            ELSE FindSlot(by, w, pivot, mid + 1, right)

RECURSIVE InsertFrom(_, _, _)
InsertFrom(by, w, start) ==
    IF start > Len(w) THEN w
    ELSE LET pivot == w[start]
             at == FindSlot(by, w, pivot, 1, start)
         IN InsertFrom(by,
                SubSeq(w, 1, at - 1) \o <<pivot>> \o SubSeq(w, at, start - 1)
                    \o SubSeq(w, start + 1, Len(w)),
                start + 1)

\* the run of len elements in ascending order, then the rest inserted
SortFromRun(by, a, desc, len) ==
    InsertFrom(by,
               IF desc THEN Reverse(SubSeq(a, 1, len)) \o SubSeq(a, len + 1, Len(a))
               ELSE a,
               len + 1)

\* the leading run counted, given whether it is descending
SortRuns(by, a, desc) == SortFromRun(by, a, desc, RunEnd(by, a, desc, 3) - 1)

ArraySort(by, a) ==
    IF Len(a) < 2 THEN a ELSE SortRuns(by, a, Compare(by, a[2], a[1]) < 0)

\* readdirSync(dicomDir).filter(...).sort()
ListDicomFiles ==
    ArraySort("codeUnits", SetToSeq({f \in dirEntries : IsDicomName(f)}))

\* seriesGroups is a plain object: a key it does not own is looked up on
\* Object.prototype, where "constructor" (among others) is found and is truthy.
ObjectPrototypeKeys ==
    { <<"c", "o", "n", "s", "t", "r", "u", "c", "t", "o", "r">> }

\* seriesGroups = {}: the keys in insertion order, and each key's group
EmptyGroups == [threw |-> FALSE, keys |-> <<>>, groups |-> <<>>]

Thrown == [threw |-> TRUE, keys |-> <<>>, groups |-> <<>>]

KeyIndex(g, key) ==
    IF \E i \in 1..Len(g.keys) : g.keys[i] = key
    THEN CHOOSE i \in 1..Len(g.keys) : g.keys[i] = key
    ELSE 0

\* if (!seriesGroups[key]) { seriesGroups[key] = {files: [], metadata} }
\* seriesGroups[key].files.push(`/dicom/${file}`)
AddToGroup(g, key, file, metadata) ==
    LET i == KeyIndex(g, key)
        path == DicomPrefix \o file
    IN IF i # 0
       THEN [g EXCEPT !.groups[i].files = Append(@, path)]
       ELSE IF key \in ObjectPrototypeKeys
            THEN Thrown   \* .files of the inherited property is undefined: TypeError
            ELSE [g EXCEPT !.keys = Append(@, key),
                           !.groups = Append(@, [files |-> <<path>>, metadata |-> metadata])]

OrZero(number) == IF number = NoNumber \/ number = 0 THEN 0 ELSE number

OrDefault(tag, default) == IF tag = NoTag THEN default ELSE tag

\* One iteration of the grouping loop: the try block, and its catch
GroupFile(g, file) ==
    LET data == fileData[file]
        seriesKey == OrDefault(data.series, UnknownSeries)
        tried ==
            IF data.ok
            THEN AddToGroup(g, seriesKey, file,
                     [studyInstanceUID  |-> OrDefault(data.study, UnknownStudy),
                      seriesInstanceUID |-> seriesKey,
                      seriesNumber      |-> OrZero(data.number)])
            ELSE Thrown
        parts == Split(file)
        fallbackKey == IF Len(parts) >= 8 THEN parts[8] ELSE Unknown
    IN IF ~tried.threw THEN tried
       ELSE AddToGroup(g, fallbackKey, file,
                [studyInstanceUID |-> NoTag, seriesInstanceUID |-> NoTag,
                 seriesNumber |-> 0])

\* for (const file of files) { ... }: a throw out of the catch block ends the loop
RECURSIVE GroupFrom(_, _, _)
GroupFrom(g, files, i) ==
    IF i > Len(files) \/ g.threw THEN g
    ELSE GroupFrom(GroupFile(g, files[i]), files, i + 1)

GroupFiles(files) == GroupFrom(EmptyGroups, files, 1)

IsOtherKey(key) == ~IsIndexKey(key)

ObjectEntries(g) ==
    LET order == ArraySort("indexKeys", SelectSeq(g.keys, IsIndexKey))
                     \o SelectSeq(g.keys, IsOtherKey)
    IN [i \in 1..Len(order) |->
            [key |-> order[i], group |-> g.groups[KeyIndex(g, order[i])]]]

\* series.push({ id, files: sortedFiles, thumbnail: sortedFiles[0], ... })
SeriesOf(entry, sortedFiles) ==
    [id                |-> entry.key,
     files             |-> sortedFiles,
     thumbnail         |-> sortedFiles[1],
     studyInstanceUID  |-> entry.group.metadata.studyInstanceUID,
     seriesInstanceUID |-> entry.group.metadata.seriesInstanceUID,
     seriesNumber      |-> entry.group.metadata.seriesNumber,
     instanceCount     |-> Len(sortedFiles)]

\* Object.entries(seriesGroups).forEach(...): one DicomSeries per group
BuildSeries(entry) == SeriesOf(entry, ArraySort("files", entry.group.files))

GetResponse ==
    IF dirState = "missing" THEN SeriesResponse(<<>>)
    ELSE IF dirState = "unreadable" THEN ErrorResponse
    ELSE LET g == GroupFiles(ListDicomFiles)
             entries == ObjectEntries(g)
             built == [i \in 1..Len(entries) |-> BuildSeries(entries[i])]
         IN IF g.threw THEN ErrorResponse
            ELSE SeriesResponse(ArraySort("series", built))

GET ==
    /\ response = NoResponse
    /\ response' = GetResponse
    /\ UNCHANGED <<dirState, dirEntries, fileData>>
    /\ UNCHANGED notApiVars

----------------------------------------------------------------------------
(* Home: the page that fetches the series list *)

\* selectedSeriesId and error when they are null
NoSelection == <<>>

NoError == ""

\* The page is not rendered
NoPage ==
    /\ series = <<>>
    /\ selectedSeriesId = NoSelection
    /\ loading = TRUE
    /\ error = NoError
    /\ fetchState = "none"

\* The page after its first render: the effect has called fetchDicomSeries()
InitHome ==
    /\ series = <<>>
    /\ selectedSeriesId = NoSelection
    /\ loading = TRUE
    /\ error = NoError
    /\ fetchState = "pending"

\* response.ok
ResponseOk(res) == res.status >= 200 /\ res.status <= 299

\* A page that never reports the error of a response (mutant of ErrorOf)
ErrorOfNothing(data) == NoError

\* data.error || 'Failed to load DICOM files'
ErrorOf(data) == IF data.error # "" THEN data.error ELSE "Failed to load DICOM files"

\* Auto-selection of the last series (mutant of FirstSeriesId)
LastSeriesId(list) == list[Len(list)].id

\* data.series[0].id
FirstSeriesId(list) == list[1].id

\* fetch and response.json() resolve with what the route handler returned:
\* the try block and the finally block of fetchDicomSeries
FetchResolves ==
    /\ fetchState = "pending"
    /\ response # NoResponse
    /\ IF ResponseOk(response)
       THEN /\ series' = response.series
            /\ selectedSeriesId' = IF Len(response.series) > 0
                                   THEN FirstSeriesId(response.series)
                                   ELSE selectedSeriesId
            /\ error' = error
            /\ fetchState' = "ok"
       ELSE /\ error' = ErrorOf(response)
            /\ fetchState' = "notOk"
            /\ UNCHANGED <<series, selectedSeriesId>>
    /\ loading' = FALSE
    /\ UNCHANGED apiVars
    /\ UNCHANGED notHomeVars

\* fetch or response.json() rejects (no network, a body that is not JSON): the
\* catch block and the finally block of fetchDicomSeries
FetchThrows ==
    /\ fetchState = "pending"
    /\ error' = "Network error while loading DICOM files"
    /\ fetchState' = "threw"
    /\ loading' = FALSE
    /\ UNCHANGED <<series, selectedSeriesId>>
    /\ UNCHANGED apiVars
    /\ UNCHANGED notHomeVars

\* What Home renders
View ==
    IF loading THEN "loading"
    ELSE IF error # NoError THEN "error"
    ELSE IF Len(series) = 0 THEN "empty"
    ELSE "viewer"

\* onSeriesSelect={setSelectedSeriesId}: a series of the selector is clicked
SelectSeries(i) ==
    /\ View = "viewer"
    /\ i \in 1..Len(series)
    /\ selectedSeriesId' = series[i].id
    /\ UNCHANGED <<series, loading, error, fetchState>>
    /\ UNCHANGED apiVars
    /\ UNCHANGED notHomeVars

NextHome ==
    \/ GET
    \/ FetchResolves
    \/ FetchThrows
    \/ \E i \in 1..MaxFiles : SelectSeries(i)

----------------------------------------------------------------------------
(* GET /api/dicom-files: the directories *)

\* The directories GET may meet: up to MaxFiles of FreeNames with any contents,
\* with or without the block of BulkNames (all of one series).
Directories ==
    { free \cup bulk :
        free \in {S \in SUBSET FreeNames : Cardinality(S) <= MaxFiles},
        bulk \in {{}, BulkNames} }

InitApi ==
    /\ dirState \in {"missing", "unreadable", "ok"}
    /\ dirEntries \in Directories
    /\ \E bulkData \in BulkResults :
         fileData \in { [f \in dirEntries |-> IF f \in BulkNames THEN bulkData ELSE free[f]] :
                          free \in [dirEntries \ BulkNames -> ParseResults] }
    /\ (dirState # "ok" => dirEntries = {})
    /\ response = NoResponse
    /\ ViewerUnmounted
    /\ ResizeUnmounted
    /\ NoThumbnails
    /\ NoPage
    /\ NoViewer

NextApi == GET

SpecApi == InitApi /\ [][NextApi]_vars

ApiDone == response.status # 0

----------------------------------------------------------------------------
(* The viewer on its own *)

InitViewerOnly ==
    /\ InitViewer
    /\ InitLife
    /\ ResizeUnmounted
    /\ NoThumbnails
    /\ NoPage
    /\ dirState = "missing" /\ dirEntries = {} /\ fileData = <<>>
    /\ response = NoResponse

\* The viewer alone, and the viewer with the browser delivering animation
\* frames for as long as frames are requested (strong fairness: a frame is
\* not deliverable while the effects of a render are being flushed) and React
\* flushing the effects of every render
SpecViewer == InitViewerOnly /\ [][NextViewer]_vars

SpecViewerFair ==
    /\ SpecViewer
    /\ SF_vars(\E f \in playbackFrames, delta \in FrameDeltas :
                   PlaybackTick(f, delta))
    /\ WF_vars(RunEffects)

----------------------------------------------------------------------------
(* Claims about GET /api/dicom-files *)

\* The name ends, whatever the case of its letters, with .dcm or .dicom
EndsWithDicomExtension(name) ==
    LET parts == Split(name)
    IN /\ Len(parts) >= 2
       /\ ToLowerCase(parts[Len(parts)]) \in { <<"d", "c", "m">>, <<"d", "i", "c", "o", "m">> }

\* The places (series, position) at which a path occurs in the returned series
Occurrences(path) ==
    { p \in UNION { {i} \X (1..Len(response.series[i].files)) :
                      i \in 1..Len(response.series) } :
        response.series[p[1]].files[p[2]] = path }

InSameSeries(f1, f2) ==
    \E i \in 1..Len(response.series) :
        \E j, k \in 1..Len(response.series[i].files) :
            /\ response.series[i].files[j] = DicomPrefix \o f1
            /\ response.series[i].files[k] = DicomPrefix \o f2

\* The files of the directory that were read and parsed without an exception
ParsedFiles == { f \in dirEntries : EndsWithDicomExtension(f) /\ fileData[f].ok }

FailedFiles == { f \in dirEntries : EndsWithDicomExtension(f) /\ ~fileData[f].ok }

\* C2: once GET has answered for a readable directory, every entry whose name
\* ends with .dcm or .dicom (in any case) is, as /dicom/<name>, in the files of
\* exactly one returned series, parsed or not, and no other entry is in any.
C2_Partition ==
    (ApiDone /\ dirState = "ok") =>
        /\ \A f \in dirEntries :
              Cardinality(Occurrences(DicomPrefix \o f))
                  = IF EndsWithDicomExtension(f) THEN 1 ELSE 0
        /\ \A i \in 1..Len(response.series) :
              \A j \in 1..Len(response.series[i].files) :
                  \E f \in dirEntries : response.series[i].files[j] = DicomPrefix \o f

\* What C2 says, of the answers that carry a series list (status 200).
C2_PartitionOfSeriesList ==
    (ApiDone /\ dirState = "ok" /\ response.status = 200) => C2_Partition

\* C3: once GET has answered, two parsed files are in the same returned series
\* exactly if their SeriesInstanceUID tags are equal (a missing tag being one
\* value), whatever their StudyInstanceUID tags.
C3_GroupedBySeriesUID ==
    (ApiDone /\ dirState = "ok") =>
        \A f1, f2 \in ParsedFiles :
            f1 # f2 => (InSameSeries(f1, f2) <=> fileData[f1].series = fileData[f2].series)

\* What C3 says, of the answers that carry a series list (status 200).
C3_GroupedInSeriesList ==
    (ApiDone /\ dirState = "ok" /\ response.status = 200) => C3_GroupedBySeriesUID

\* C4: in every returned series, of two files that both have an instance number
\* in their name, the one with the smaller number comes first, also when the
\* series holds files without a number.
C4_SortedByInstanceNumber ==
    ApiDone =>
        \A i \in 1..Len(response.series) :
            LET files == response.series[i].files
            IN \A j, k \in 1..Len(files) :
                  ( /\ j < k
                    /\ ExtractInstanceNumber(files[j]) # NULL
                    /\ ExtractInstanceNumber(files[k]) # NULL )
                  => ExtractInstanceNumber(files[j]) <= ExtractInstanceNumber(files[k])

\* C4, of the series in which every file has an instance number.
C4_SortedWhenAllNumbered ==
    ApiDone =>
        \A i \in 1..Len(response.series) :
            LET files == response.series[i].files
            IN (\A j \in 1..Len(files) : ExtractInstanceNumber(files[j]) # NULL)
               => \A j, k \in 1..Len(files) :
                     j < k => ExtractInstanceNumber(files[j]) <= ExtractInstanceNumber(files[k])

\* C5: consecutive series a, b of the response have a.seriesNumber <=
\* b.seriesNumber; with equal series numbers a series of more than 5 instances
\* never precedes one of at most 5, and a.instanceCount <= b.instanceCount.
C5_SeriesSorted ==
    ApiDone =>
        \A i \in 1..(Len(response.series) - 1) :
            LET a == response.series[i]
                b == response.series[i + 1]
            IN /\ a.seriesNumber <= b.seriesNumber
               /\ a.seriesNumber = b.seriesNumber =>
                     /\ ~(a.instanceCount > 5 /\ b.instanceCount <= 5)
                     /\ a.instanceCount <= b.instanceCount

\* C5's case: three series, the first two with different series numbers, the
\* last two with the same one, a scout series before a series of more than 5.
C5_Witness ==
    /\ ApiDone
    /\ Len(response.series) >= 3
    /\ response.series[1].seriesNumber < response.series[2].seriesNumber
    /\ response.series[2].seriesNumber = response.series[3].seriesNumber
    /\ response.series[2].instanceCount <= 5
    /\ response.series[3].instanceCount > 5

\* The key of the group the catch block puts a file in
FallbackKeyOf(f) == IF Len(Split(f)) >= 8 THEN Split(f)[8] ELSE Unknown

\* C6: GET answers {series: []} with a success status when the directory does
\* not exist; a file that cannot be read or parsed does not fail the request
\* and is in the series whose id is the 8th dot-separated part of its name (or
\* "unknown"); any other exception gives status 500 and the error body.
C6_ErrorsCaught ==
    ApiDone =>
        /\ dirState = "missing" => response = SeriesResponse(<<>>)
        /\ dirState = "unreadable" => response = ErrorResponse
        /\ dirState = "ok" =>
              /\ response.status = 200
              /\ \A f \in FailedFiles :
                    \E i \in 1..Len(response.series) :
                        /\ response.series[i].id = FallbackKeyOf(f)
                        /\ \E j \in 1..Len(response.series[i].files) :
                              response.series[i].files[j] = DicomPrefix \o f

\* C6, of the directories without a file that fails to parse and whose 8th
\* name part is a property of Object.prototype.
C6_ErrorsCaughtOtherwise ==
    (\A f \in FailedFiles : FallbackKeyOf(f) \notin ObjectPrototypeKeys) => C6_ErrorsCaught

----------------------------------------------------------------------------
(* The resize handling of a viewer on its own *)

InitResizeOnly ==
    /\ InitResize
    /\ InitLife
    /\ ViewerUnmounted
    /\ NoThumbnails
    /\ NoPage
    /\ dirState = "missing" /\ dirEntries = {} /\ fileData = <<>>
    /\ response = NoResponse

SpecResize == InitResizeOnly /\ [][NextResize]_vars

\* The resize handling, and the navigation and playback, of a viewer that may
\* unmount
SpecResizeUnmount == InitResizeOnly /\ [][NextResizeUnmount]_vars

SpecViewerUnmount == InitViewerOnly /\ [][NextViewerUnmount]_vars

----------------------------------------------------------------------------
(* The viewer from mount to unmount *)

InitLifeOnly ==
    /\ InitViewer
    /\ InitResize
    /\ InitLife
    /\ NoThumbnails
    /\ NoPage
    /\ dirState = "missing" /\ dirEntries = {} /\ fileData = <<>>
    /\ response = NoResponse

SpecLife == InitLifeOnly /\ [][NextLife]_vars

----------------------------------------------------------------------------
(* The thumbnails on their own *)

InitThumbsOnly ==
    /\ InitThumbs
    /\ NoViewer
    /\ NoPage
    /\ ViewerUnmounted
    /\ ResizeUnmounted
    /\ dirState = "missing" /\ dirEntries = {} /\ fileData = <<>>
    /\ response = NoResponse

SpecThumbs == InitThumbsOnly /\ [][NextThumbs]_vars

----------------------------------------------------------------------------
(* The page and the route handler it fetches from *)

\* The directories are those of single files, without the block of BulkNames
InitHomeAndApi ==
    /\ dirState \in {"missing", "unreadable", "ok"}
    /\ dirEntries \in (IF dirState = "ok" THEN {S \in Directories : S \cap BulkNames = {}}
                       ELSE {{}})
    /\ fileData \in [dirEntries -> ParseResults]
    /\ response = NoResponse
    /\ InitHome
    /\ NoViewer
    /\ ViewerUnmounted
    /\ ResizeUnmounted
    /\ NoThumbnails

SpecHome == InitHomeAndApi /\ [][NextHome]_vars

----------------------------------------------------------------------------
(* The keys of a paused viewer, with series long enough for jumps *)

\* The length of a series in which the space key jumps more than one image
LongSeries == 120

KeyLengths == {0, 1, MaxImages, LongSeries}

\* handleKeyPress of the variant of the component that calls prevImage,
\* nextImage and goToImage, and reads currentIndexRef.current for the space key
KeyPressIndexByRef(key, prev) ==
    LET total == keyHandlerTotal
    IN IF isPlayingRef \/ total = 0 THEN prev
       ELSE CASE key \in {"ArrowLeft", "a"}  -> PrevIndex(prev)
              [] key \in {"ArrowRight", "d"} -> NextImageIndex(prev)
              [] key = "Home"                -> GoToImageIndex(0)
              [] key = "End"                 -> GoToImageIndex(total - 1)
              [] key = " "                   -> GoToImageIndex(SpaceIndex(currentIndexRef, total))
              [] OTHER                       -> prev

KeyDownByRef(key) ==
    /\ mounted
    /\ Idle
    /\ currentImageIndex' = KeyPressIndexByRef(key, currentImageIndex)
    /\ Rendered(IndexChange(currentImageIndex'))
    /\ lastEvent' = "key"
    /\ UNCHANGED <<dicomFiles, isPlaying, playSpeed, isPlayingRef, currentIndexRef,
                   keyHandlerTotal, playbackFrameRef, playbackFrames>>
    /\ UNCHANGED notViewerVars

\* The viewer after its first render, with a series of one of KeyLengths
InitKeys ==
    /\ dicomFiles \in [id : {1}, length : KeyLengths]
    /\ currentImageIndex = 0
    /\ isPlaying = FALSE
    /\ playSpeed = 100
    /\ isPlayingRef = FALSE
    /\ currentIndexRef = 0
    /\ keyHandlerTotal = dicomFiles.length
    /\ playbackFrameRef = NoFrame
    /\ playbackFrames = {}
    /\ pendingEffects = {}
    /\ lastEvent = "mount"
    /\ InitLife
    /\ ResizeUnmounted
    /\ NoThumbnails
    /\ NoPage
    /\ dirState = "missing" /\ dirEntries = {} /\ fileData = <<>>
    /\ response = NoResponse

NextKeys ==
    \/ \E key \in Keys : KeyDown(key)
    \/ \E key \in Keys : KeyDownByRef(key)
    \/ RunEffects

SpecKeys == InitKeys /\ [][NextKeys]_vars

----------------------------------------------------------------------------
(* DicomViewer: index bounds, autoplay and series changes *)

InBounds ==
    IF imageCount = 0 THEN currentImageIndex = 0
    ELSE 0 <= currentImageIndex /\ currentImageIndex <= imageCount - 1

\* C1 (as stated): in every reachable state the current image index is 0 when
\* there are no images and lies in 0..imageCount-1 otherwise.
C1_IndexInBounds == InBounds

\* C1 (amended): the index is within bounds in every state except the render
\* that first sees a new dicomFiles prop, whose reset and clamp effects have
\* not run yet.
C1_IndexInBoundsOnceEffectsRan ==
    "dicomFiles" \notin pendingEffects => InBounds

\* C1: a series change to a shorter list left the index on the new last image
C1_Witness ==
    /\ lastEvent = "series"
    /\ Idle
    /\ imageCount > 1
    /\ currentImageIndex = imageCount - 1

\* A tick whose target interval has elapsed
DueTick ==
    \E f \in playbackFrames, delta \in FrameDeltas :
        /\ f.elapsed + delta >= f.interval
        /\ PlaybackTick(f, delta)

\* C8, first half: while playing, a tick whose interval has elapsed sets the
\* index to (index + 1) mod imageCount.
C8_TickWraps ==
    [][DueTick => currentImageIndex' = (currentImageIndex + 1) % imageCount]_vars

\* C8 (as stated): each tick whose interval has elapsed sets the index to
\* (index + 1) mod imageCount, and with animation frames delivered fairly every
\* index is shown again and again for as long as playback is not paused.
C8_AutoplayLoops ==
    /\ C8_TickWraps
    /\ \A i \in 0..(MaxImages - 1) :
           (isPlaying /\ i < imageCount) ~> (~isPlaying \/ currentImageIndex = i)

\* C8 (amended): each tick whose interval has elapsed sets the index to
\* (index + 1) mod imageCount, and with animation frames delivered fairly every
\* index is shown again unless playback is paused or the play speed is set
\* before that: setting the speed restarts the interval the tick waits for.
C8_AutoplayLoopsUnlessSpeedSet ==
    /\ C8_TickWraps
    /\ \A i \in 0..(MaxImages - 1) :
           (isPlaying /\ i < imageCount)
               ~> (~isPlaying \/ currentImageIndex = i \/ lastEvent = "speed")

\* C8: a tick has wrapped from the last image to the first
C8_Witness ==
    /\ lastEvent = "tick"
    /\ isPlaying
    /\ currentImageIndex = 0

\* C10: once the dicomFiles prop has changed and the effects have run,
\* isPlaying is false and the index is 0, whatever they were before.
C10_SeriesChangeResets ==
    (lastEvent = "series" /\ Idle) => (~isPlaying /\ currentImageIndex = 0)

\* C10, the half that holds: a series change always stops playback.
C10_SeriesChangeStopsPlayback ==
    (lastEvent = "series" /\ Idle) => ~isPlaying

----------------------------------------------------------------------------
(* DicomViewer: debounced resize *)

\* C9, first half: at most one debounce timeout and at most one resize
\* animation frame are pending at any time.
C9_AtMostOnePending ==
    /\ Cardinality(DebouncePending) <= 1
    /\ Cardinality(resizeFrames) <= 1

\* C9, second half: a burst of window resize events less than 150 ms apart
\* makes no applyViewportToFit call while its debounce timeout is pending and
\* has made exactly one once that timeout and the frame it requested have run
\* (burst.clean: unless the observer, the isMobile effect or an orientation or
\* media timeout took over the frame, which then makes the call).
C9_OneCallPerBurst ==
    burst.events > 0 =>
        /\ DebouncePending # {} => burst.calls = 0
        /\ burst.calls <= 1
        /\ (/\ DebouncePending = {}
            /\ ~\E f \in resizeFrames : f.forBurst
            /\ burst.clean) => burst.calls = 1

----------------------------------------------------------------------------
(* DicomThumbnail: errors and the placeholder *)

\* The runs that have ended while their thumbnail was mounted with the same
\* props
EndedUncancelled ==
    {r \in 1..MaxRuns : runs[r].pc = "done" /\ ~runs[r].isCancelled}

CanvasOf(r) == thumbs[runs[r].thumb].canvas

\* C7 (as stated): a load that fails for any reason (initialization of the
\* library, load or decode of the image) while the thumbnail is mounted with
\* the same props ends with the placeholder on its canvas, and a successful
\* load ends with the image drawn.
C7_ErrorsDrawPlaceholder ==
    \A r \in EndedUncancelled :
        /\ runs[r].result \in {"initFailed", "loadFailed", "decodeFailed"}
               => CanvasOf(r) = Placeholder
        /\ runs[r].result = "drawn" => CanvasOf(r) = Image(runs[r].file)

\* C7 (amended): a load whose image fails to load or to decode while the
\* thumbnail is mounted with the same props ends with the placeholder on its
\* canvas, and a successful load ends with the image drawn; a failed
\* initialization of the library is logged and draws nothing.
C7_LoadErrorsDrawPlaceholder ==
    \A r \in EndedUncancelled :
        /\ runs[r].result \in {"loadFailed", "decodeFailed"}
               => CanvasOf(r) = Placeholder
        /\ runs[r].result = "drawn" => CanvasOf(r) = Image(runs[r].file)
        /\ runs[r].result = "initFailed" => CanvasOf(r) # Placeholder

\* C7: an image failed to load and the placeholder was drawn
C7_Witness ==
    \E r \in EndedUncancelled :
        /\ runs[r].result = "loadFailed"
        /\ CanvasOf(r) = Placeholder

----------------------------------------------------------------------------
(* DicomViewer: navigation during playback *)

\* C11: while isPlaying is true no keydown, click or slider change moves the
\* index: a step that changes currentImageIndex in a state where isPlaying is
\* true is a playback tick or the effects of a series change.
C11_NavigationDisabledWhilePlaying ==
    [][(isPlaying /\ currentImageIndex' # currentImageIndex)
           => lastEvent' \in {"tick", "series"}]_vars

\* C11: a key was pressed during playback (and the index is not on an end, so
\* that every navigation key would have moved it)
C11_Witness ==
    /\ lastEvent = "key"
    /\ isPlaying
    /\ isPlayingRef
    /\ imageCount > 2
    /\ currentImageIndex = 1

----------------------------------------------------------------------------
(* DicomThumbnail: configuring the library *)

\* C12, second half: initializeCornerstone has returned true to a run only if
\* the library is configured.
C12_TrueOnlyWhenConfigured ==
    \A r \in 1..MaxRuns : runs[r].initialized => isConfigured

\* C12: cornerstoneWADOImageLoader.configure is called at most once however
\* the loads of the thumbnails interleave, and initializeCornerstone returns
\* true only once the library is configured.
C12_ConfiguredOnce ==
    /\ configureCalls <= 1
    /\ C12_TrueOnlyWhenConfigured

----------------------------------------------------------------------------
(* Home: loading, error and selection *)

\* C13: once the fetch has completed in any way loading is false; error is
\* non-null exactly if the response was not ok or an exception was thrown, and
\* then the error view is shown, not the viewer.
C13_LoadingSettles ==
    fetchState # "pending" =>
        /\ loading = FALSE
        /\ (error # NoError) <=> (fetchState \in {"notOk", "threw"})
        /\ error # NoError => View = "error"

\* C13: the route handler answered 500 and the page shows its error
C13_Witness ==
    /\ fetchState = "notOk"
    /\ response.status = 500
    /\ error = response.error
    /\ View = "error"

\* C14: after a successful fetch of a non-empty list the selected series is
\* the first of the response; after a successful fetch of an empty list the
\* selection stays null and the 'No DICOM files found' view is shown.
C14_FirstSeriesSelected ==
    /\ [][(fetchState = "pending" /\ fetchState' = "ok" /\ Len(response.series) > 0)
              => selectedSeriesId' = response.series[1].id]_vars
    /\ [](fetchState = "ok" /\ Len(response.series) = 0
              => selectedSeriesId = NoSelection /\ View = "empty")

\* C14: a list of two series was fetched and the first is selected
C14_Witness ==
    /\ fetchState = "ok"
    /\ Len(series) = 2
    /\ series[1].id # series[2].id
    /\ selectedSeriesId = series[1].id

----------------------------------------------------------------------------
(* DicomViewer: image loads, the enabled element and unmounting *)

\* imageIds[currentImageIndex]
CurrentImageId == ImageIdAt(dicomFiles, currentImageIndex)

\* C15: the image displayed matches the current index whatever the order in
\* which the loads resolve: once the image of the current index is displayed
\* on a mounted viewer whose effects have run, a step that displays an image
\* displays that of the current index.
C15_DisplayedMatchesIndex ==
    [][(/\ mounted
        /\ Idle
        /\ CurrentImageId # NoImage
        /\ lastDisplay = [imageId |-> CurrentImageId, enabled |-> TRUE])
           => lastDisplay' = lastDisplay]_vars

\* C16, of the enabled element: after the unmount cleanup the element is not
\* enabled.
C16_EnabledElementDisabled == ~mounted => ~elementEnabled

\* C16: enable and disable are paired: once the component has unmounted its
\* element is not enabled and no ResizeObserver of the init effect remains
\* connected, also if the unmount happens while the import is pending.
C16_EnableDisablePaired ==
    ~mounted => (~elementEnabled /\ ~sizeObserver)

\* C17: displayImage (and setViewport after it) is called on the viewer
\* element only while the element is enabled.
C17_DisplayOnlyWhileEnabled == lastDisplay.enabled

\* C18: after the unmount no debounce, orientation-change or media-change
\* timeout and no resize frame is pending, the refs are null and the
\* ResizeObserver is disconnected; no resize frame runs and none is requested
\* from then on, so applyViewportToFit is not invoked.
C18_NoResizeWorkAfterUnmount ==
    /\ [](~mounted => /\ timeouts = {}
                      /\ resizeFrames = {}
                      /\ resizeTimeoutRef = NoTimeout
                      /\ resizeFrameRef = NoFrame
                      /\ ~observing)
    /\ [][~mounted => UNCHANGED <<timeouts, resizeFrames, burst>>]_vars

\* C18: the viewer unmounted in a burst of resize events whose
\* applyViewportToFit call had not been made
C18_Witness ==
    /\ ~mounted
    /\ isInitialized
    /\ burst.events > 1
    /\ burst.calls = 0
    /\ burst.clean

\* C19: at most one playback frame is pending; once isPlaying is false or the
\* component has unmounted, and the effects have run, playbackFrameRef is null
\* and no frame is pending, so no tick runs; while playing, also after a
\* change of playSpeed, the one pending frame is the one playbackFrameRef names.
C19_PausingStopsLoop ==
    /\ Cardinality(playbackFrames) <= 1
    /\ (Idle /\ (~isPlaying \/ ~mounted))
          => (playbackFrameRef = NoFrame /\ playbackFrames = {})
    /\ (Idle /\ mounted /\ isPlaying)
          => (/\ Cardinality(playbackFrames) = 1
              /\ \A f \in playbackFrames : f.id = playbackFrameRef)

\* C19: the viewer unmounted while playing, after ticks had advanced the index
C19_Witness ==
    /\ ~mounted
    /\ isPlaying
    /\ currentImageIndex > 0
    /\ lastEvent = "unmount"

----------------------------------------------------------------------------
(* DicomViewer: playback and the number of images *)

\* C21: in every state isPlaying implies imageCount > 1, also right after the
\* dicomFiles prop has changed to a list of 0 or 1 images during playback.
C21_PlayingImpliesMultiImage == isPlaying => imageCount > 1

\* C21, but for the render that first sees a new dicomFiles prop, whose reset
\* effect has not run yet: isPlaying implies imageCount > 1.
C21_PlayingImpliesMultiImageOnceReset ==
    isPlaying => (imageCount > 1 \/ "dicomFiles" \in pendingEffects)

\* C21: the reset effect has just stopped the playback that was running when a
\* list of 0 or 1 images arrived (isPlayingRef is not synchronised yet)
C21_Witness ==
    /\ lastEvent = "series"
    /\ imageCount <= 1
    /\ ~isPlaying
    /\ isPlayingRef
    /\ "isPlaying" \in pendingEffects

----------------------------------------------------------------------------
(* DicomViewer: paging, jumps and keys *)

\* C22: manual paging saturates: the Next button and the ArrowRight and d keys
\* set the index to min(index + 1, imageCount - 1) (0 without images), the
\* Previous button and the ArrowLeft and a keys set it to max(index - 1, 0),
\* so they leave the index alone at the last and at the first image, while a
\* due playback tick at the last image sets it to 0.
C22_ManualPagingSaturates ==
    /\ [][NextImage => currentImageIndex' =
                          IF imageCount = 0 THEN 0
                          ELSE IF currentImageIndex + 1 < imageCount - 1
                               THEN currentImageIndex + 1 ELSE imageCount - 1]_vars
    /\ [][PrevImage => currentImageIndex' =
                          IF currentImageIndex - 1 > 0 THEN currentImageIndex - 1 ELSE 0]_vars
    /\ [][((\E key \in {"ArrowRight", "d"} : KeyDown(key)) /\ ~isPlaying /\ imageCount > 0)
             => currentImageIndex' =
                   IF currentImageIndex + 1 < imageCount - 1
                   THEN currentImageIndex + 1 ELSE imageCount - 1]_vars
    /\ [][((\E key \in {"ArrowLeft", "a"} : KeyDown(key)) /\ ~isPlaying /\ imageCount > 0)
             => currentImageIndex' =
                   IF currentImageIndex - 1 > 0 THEN currentImageIndex - 1 ELSE 0]_vars
    /\ [][(Idle /\ lastEvent' = "tick" /\ currentImageIndex = imageCount - 1)
             => currentImageIndex' = 0]_vars

\* C22: a key was pressed at the last of several images of a paused viewer and
\* the index stayed (no render followed)
C22_Witness ==
    /\ lastEvent = "key"
    /\ ~isPlaying
    /\ ~isPlayingRef
    /\ Idle
    /\ imageCount > 1
    /\ currentImageIndex = imageCount - 1

\* The arguments goToImage is tried with: below, within and above the bounds
GoToArguments == (0 - 2)..(MaxImages + 1)

\* C23: with images goToImage(i) leaves the index max(0, min(i, imageCount - 1))
\* for any i, without images it leaves the index as it is; First, Mid and Last
\* set the index to 0, floor(imageCount / 2) and imageCount - 1, and a slider
\* value sets the index to that value.
C23_GoToImageClamps ==
    /\ [](\A i \in GoToArguments :
             GoToImageIndex(i) = IF imageCount = 0 THEN currentImageIndex
                                 ELSE IF i < 0 THEN 0
                                 ELSE IF i > imageCount - 1 THEN imageCount - 1
                                 ELSE i)
    /\ [][JumpButton("First") => currentImageIndex' = 0]_vars
    /\ [][JumpButton("Mid") => currentImageIndex' = imageCount \div 2]_vars
    /\ [][JumpButton("Last") => currentImageIndex' = imageCount - 1]_vars
    /\ [][\A value \in 0..MaxImages :
             SliderChange(value) => currentImageIndex' = value]_vars

\* C23: Mid has set the index of a 3-image series to 1
C23_Witness ==
    /\ lastEvent = "jump"
    /\ imageCount = 3
    /\ currentImageIndex = 1

\* max(1, floor(imageCount / 50)), as the claim states it
ExpectedJump == IF imageCount \div 50 > 1 THEN imageCount \div 50 ELSE 1

\* A keydown of either variant of handleKeyPress
KeyStep(key) == KeyDown(key) \/ KeyDownByRef(key)

\* C24: on a paused viewer with images Home sets the index to 0, End to
\* imageCount - 1, and space advances it by max(1, floor(imageCount / 50)) up
\* to imageCount - 1, from the index at the time of the event, so that presses
\* in a row add up; without images no key changes the index.
C24_KeyboardJumps ==
    /\ [][(KeyStep("Home") /\ ~isPlaying /\ imageCount > 0)
             => currentImageIndex' = 0]_vars
    /\ [][(KeyStep("End") /\ ~isPlaying /\ imageCount > 0)
             => currentImageIndex' = imageCount - 1]_vars
    /\ [][(KeyStep(" ") /\ ~isPlaying /\ imageCount > 0)
             => currentImageIndex' =
                   IF currentImageIndex + ExpectedJump < imageCount - 1
                   THEN currentImageIndex + ExpectedJump ELSE imageCount - 1]_vars
    /\ [][((\E key \in Keys : KeyStep(key)) /\ imageCount = 0)
             => currentImageIndex' = currentImageIndex]_vars

\* C24: a key has moved the index of a long series to two jumps of more than
\* one image from the start
C24_Witness ==
    /\ lastEvent = "key"
    /\ imageCount = LongSeries
    /\ LongSeries \div 50 > 1
    /\ currentImageIndex = 2 * (LongSeries \div 50)
    /\ "currentImageIndex" \in pendingEffects

----------------------------------------------------------------------------
(* DicomThumbnail: cancelled loads *)

\* The runs of thumbnail t whose cleanup has not run
LiveRuns(t) ==
    {r \in 1..MaxRuns : runs[r].thumb = t /\ runs[r].pc # "unused" /\ ~runs[r].isCancelled}

\* No run whose cleanup has run is waiting to start
NoCancelledRunScheduled ==
    \A r \in 1..MaxRuns : runs[r].isCancelled => runs[r].pc # "scheduled"

\* A step that draws on the canvas of a thumbnail (the image or the
\* placeholder) is the end of a load whose cleanup has not run, and an image it
\* draws is that of the thumbnail's dicomFile
DrawnByLiveRun ==
    \A t \in 1..NumThumbs :
        (thumbs'[t].canvas # thumbs[t].canvas /\ thumbs'[t].canvas # Blank)
            => /\ \E r \in LiveRuns(t) : runs[r].pc = "loading" /\ runs'[r].pc = "done"
               /\ thumbs'[t].canvas.drawn = "image"
                      => thumbs'[t].canvas.file = thumbs[t].dicomFile

\* C25 (as stated): once the cleanup of a thumbnail's effect has run, a load
\* that was scheduled does not start and a load in flight draws neither the
\* image nor the placeholder, so that the image on the canvas is always that of
\* the thumbnail's current dicomFile.
C25_CancelledLoadHasNoEffect ==
    /\ []NoCancelledRunScheduled
    /\ [][DrawnByLiveRun]_vars
    /\ [](\A t \in 1..NumThumbs :
             thumbs[t].canvas.drawn = "image"
                 => thumbs[t].canvas.file = thumbs[t].dicomFile)

\* C25 (amended): once the cleanup has run, a load that was scheduled does not
\* start and a load in flight draws nothing; an image on the canvas is that of
\* the current dicomFile, or it is the image of an earlier dicomFile and the
\* load of the current one has not sized (and so cleared) the canvas.
C25_CancelledLoadDrawsNothing ==
    /\ []NoCancelledRunScheduled
    /\ [][DrawnByLiveRun]_vars
    /\ [](\A t \in 1..NumThumbs :
             (thumbs[t].canvas.drawn = "image"
                  /\ thumbs[t].canvas.file # thumbs[t].dicomFile)
                 => \A r \in LiveRuns(t) :
                        \/ runs[r].pc \in {"scheduled", "importing", "initialized"}
                        \/ runs[r].result \in {"skipped", "initFailed"})

\* C25: the load of an earlier dicomFile is in flight after its cleanup has run
\* and the load of the current dicomFile has drawn its image
C25_Witness ==
    \E t \in 1..NumThumbs :
        /\ thumbs[t].mounted
        /\ thumbs[t].canvas = Image(thumbs[t].dicomFile)
        /\ \E r \in LiveRuns(t) : runs[r].result = "drawn"
        /\ \E r \in 1..MaxRuns :
              runs[r].thumb = t /\ runs[r].isCancelled /\ runs[r].pc = "loading"

====
